---- MODULE Spec2Model ----
(***************************************************************************)
(* Model of the student filter backend (src/main.py): the numeric range    *)
(* test, the fuzzy matcher, the column resolver, the record filter engine, *)
(* the filter normaliser / repairer and the /nl_query handler.             *)
(*                                                                         *)
(* Python values are tagged records; strings are sequences of one-char     *)
(* strings; dicts are insertion-ordered sequences of key/value pairs.      *)
(***************************************************************************)
EXTENDS Integers, Sequences, FiniteSets, TLC

VARIABLES
    pc,             \* position of the running call
    value_raw, min_val, max_val,        \* arguments of passes_numeric_filter
    text, pattern, threshold,           \* arguments of fuzzy_match
    result,                             \* value returned by a helper call
    filters, user_query,                \* arguments of repair_llm_filters
    repaired, repaired_again,           \* repair applied once and twice
    raw,                                \* the translator's raw response
    sheet, fetched,                     \* the spreadsheet rows; whether they were read
    records, query_params,              \* arguments of filter_students
    sat_used, act_used, idx, filtered,  \* locals of filter_students
    status                              \* HTTP status of the request (0: none yet)

vars == <<pc, value_raw, min_val, max_val, text, pattern, threshold, result,
          filters, user_query, repaired, repaired_again, raw, sheet, fetched,
          records, query_params, sat_used, act_used, idx, filtered, status>>

-----------------------------------------------------------------------------
(* Bounds of the model *)

MaxRecords == 2
MaxStrLen == 3
MaxRawLen == 4
MaxListLen == 2

-----------------------------------------------------------------------------
(* Python values *)

PyNone == [t |-> "none", n |-> 0, s |-> <<>>, l |-> <<>>]
PyInt(n) == [t |-> "int", n |-> n, s |-> <<>>, l |-> <<>>]
PyStr(s) == [t |-> "str", n |-> 0, s |-> s, l |-> <<>>]
PyList(l) == [t |-> "list", n |-> 0, s |-> <<>>, l |-> l]

\* Python truthiness: None, 0, "" and [] are false.
Truthy(v) ==
    CASE v.t = "none" -> FALSE
      [] v.t = "int" -> v.n # 0
      [] v.t = "str" -> v.s # <<>>
      [] v.t = "list" -> v.l # <<>>

-----------------------------------------------------------------------------
(* Strings *)

UpperCase == <<"A","B","C","D","E","F","G","H","I","J","K","L","M",
               "N","O","P","Q","R","S","T","U","V","W","X","Y","Z">>
LowerCase == <<"a","b","c","d","e","f","g","h","i","j","k","l","m",
               "n","o","p","q","r","s","t","u","v","w","x","y","z">>
Digits == <<"0","1","2","3","4","5","6","7","8","9">>

lower_char(c) ==
    IF \E i \in 1..26 : UpperCase[i] = c
    THEN LowerCase[CHOOSE i \in 1..26 : UpperCase[i] = c]
    ELSE c

upper_char(c) ==
    IF \E i \in 1..26 : LowerCase[i] = c
    THEN UpperCase[CHOOSE i \in 1..26 : LowerCase[i] = c]
    ELSE c

lower(s) == [i \in 1..Len(s) |-> lower_char(s[i])]
upper(s) == [i \in 1..Len(s) |-> upper_char(s[i])]

IsSpace(c) == c = " "

RECURSIVE lstrip(_)
lstrip(s) == IF s # <<>> /\ IsSpace(Head(s)) THEN lstrip(Tail(s)) ELSE s

RECURSIVE rstrip(_)
rstrip(s) ==
    IF s # <<>> /\ IsSpace(s[Len(s)]) THEN rstrip(SubSeq(s, 1, Len(s) - 1)) ELSE s

strip(s) == rstrip(lstrip(s))

\* `p in t` on strings
contains(t, p) ==
    \E i \in 1..(Len(t) - Len(p) + 1) : SubSeq(t, i, i + Len(p) - 1) = p

\* s.split(",")
RECURSIVE split_from(_, _)
split_from(s, cur) ==
    IF s = <<>> THEN <<cur>>
    ELSE IF Head(s) = "," THEN <<cur>> \o split_from(Tail(s), <<>>)
    ELSE split_from(Tail(s), Append(cur, Head(s)))

split(s) == split_from(s, <<>>)

IsDigit(c) == \E i \in 1..10 : Digits[i] = c
DigitVal(c) == (CHOOSE i \in 1..10 : Digits[i] = c) - 1

RECURSIVE digits_value(_, _)
digits_value(s, acc) ==
    IF s = <<>> THEN acc ELSE digits_value(Tail(s), 10 * acc + DigitVal(Head(s)))

RECURSIVE nat_str(_)
nat_str(n) == IF n < 10 THEN <<Digits[n + 1]>> ELSE Append(nat_str(n \div 10), Digits[(n % 10) + 1])

int_str(n) == IF n < 0 THEN <<"-">> \o nat_str(0 - n) ELSE nat_str(n)

RECURSIVE list_repr(_)
list_repr(l) ==
    IF l = <<>> THEN <<>>
    ELSE <<"'">> \o Head(l) \o <<"'">>
         \o (IF Len(l) > 1 THEN <<",", " ">> ELSE <<>>) \o list_repr(Tail(l))

\* str(v)
str(v) ==
    CASE v.t = "none" -> <<"N","o","n","e">>
      [] v.t = "int" -> int_str(v.n)
      [] v.t = "str" -> v.s
      [] v.t = "list" -> <<"[">> \o list_repr(v.l) \o <<"]">>

\* int(v): ok is FALSE where Python raises TypeError or ValueError
int(v) ==
    CASE v.t = "int" -> [ok |-> TRUE, n |-> v.n]
      [] v.t = "str" ->
           LET b == strip(v.s)
               signed == b # <<>> /\ Head(b) \in {"+", "-"}
               d == IF signed THEN Tail(b) ELSE b
           IN IF d # <<>> /\ \A i \in 1..Len(d) : IsDigit(d[i])
              THEN [ok |-> TRUE,
                    n |-> IF signed /\ Head(b) = "-"
                          THEN 0 - digits_value(d, 0) ELSE digits_value(d, 0)]
              ELSE [ok |-> FALSE, n |-> 0]
      [] OTHER -> [ok |-> FALSE, n |-> 0]

-----------------------------------------------------------------------------
(* Insertion-ordered dicts: sequences of [k, v] without duplicate keys *)

keys(d) == {d[i].k : i \in 1..Len(d)}
has(d, k) == \E i \in 1..Len(d) : d[i].k = k
item(d, k) == d[CHOOSE i \in 1..Len(d) : d[i].k = k].v
\* d.get(k, default)
get(d, k, default) == IF has(d, k) THEN item(d, k) ELSE default
\* d.pop(k)
pop(d, k) == SelectSeq(d, LAMBDA e : e.k # k)
\* d[k] = v
set(d, k, v) ==
    IF has(d, k)
    THEN [i \in 1..Len(d) |-> IF d[i].k = k THEN [k |-> k, v |-> v] ELSE d[i]]
    ELSE Append(d, [k |-> k, v |-> v])
\* d.setdefault(k, v)
setdefault(d, k, v) == IF has(d, k) THEN d ELSE Append(d, [k |-> k, v |-> v])
\* d1 == d2 (order of insertion is not compared)
dict_eq(d1, d2) == {d1[i] : i \in 1..Len(d1)} = {d2[i] : i \in 1..Len(d2)}

-----------------------------------------------------------------------------
(* Column and filter-key names are atomic; lower() and strip() on them are *)
(* tabulated for the names that occur in the model.                        *)

name_lower(k) ==
    CASE k = "City" -> "city"
      [] k = "Intended_Major" -> "intended_major"
      [] k = "Intended Major" -> "intended major"
      [] k = " intended major " -> " intended major "
      [] k = "Name" -> "name"
      [] k = "12th Board" -> "12th board"
      [] k = "12th grade overall score" -> "12th grade overall score"
      [] k = "SAT Total score" -> "sat total score"
      [] k = "ACT Score" -> "act score"
      [] k = "City of Graduation" -> "city of graduation"
      [] k = "Accepted Univ" -> "accepted univ"
      [] k = "Countries Applied To" -> "countries applied to"
      [] k = "Admitted Univs" -> "admitted univs"
      [] k = "SAT Total score_min" -> "sat total score_min"
      [] k = "SAT Total score_max" -> "sat total score_max"
      [] k = "SAT Math_min" -> "sat math_min"
      [] k = "SAT English_max" -> "sat english_max"
      [] k = "ACT Score_min" -> "act score_min"
      [] k = "ACT Score_max" -> "act score_max"
      [] OTHER -> k

name_strip(k) ==
    CASE k = " intended major " -> "intended major"
      [] OTHER -> k

-----------------------------------------------------------------------------
(* Helpers (src/main.py 63-94) *)

\* "True", "False", or "TypeError" where the comparison with a bound raises
passes_numeric_filter(v, lo, hi) ==
    LET value == int(v)
    IN IF ~value.ok THEN "False"
       ELSE IF lo.t \notin {"none", "int"} THEN "TypeError"
       ELSE IF lo.t = "int" /\ value.n < lo.n THEN "False"
       ELSE IF hi.t \notin {"none", "int"} THEN "TypeError"
       ELSE IF hi.t = "int" /\ value.n > hi.n THEN "False"
       ELSE "True"

Min(a, b) == IF a < b THEN a ELSE b

\* SequenceMatcher.find_longest_match on whole a, b (no junk): the longest
\* common block, earliest in a, then earliest in b; k = 0 when none.
find_longest_match(a, b) ==
    LET blk(i, j, k) == SubSeq(a, i, i + k - 1) = SubSeq(b, j, j + k - 1)
        at(k) == {ij \in (1..(Len(a) - k + 1)) \X (1..(Len(b) - k + 1)) :
                     blk(ij[1], ij[2], k)}
        sizes == {k \in 1..Min(Len(a), Len(b)) : at(k) # {}}
    IN IF sizes = {} THEN [i |-> 1, j |-> 1, k |-> 0]
       ELSE LET k == CHOOSE x \in sizes : \A y \in sizes : y <= x
                i == CHOOSE x \in {ij[1] : ij \in at(k)} :
                        \A y \in {ij[1] : ij \in at(k)} : x <= y
                js == {ij[2] : ij \in {p \in at(k) : p[1] = i}}
                j == CHOOSE x \in js : \A y \in js : x <= y
            IN [i |-> i, j |-> j, k |-> k]

\* sum of the sizes of SequenceMatcher.get_matching_blocks()
RECURSIVE matching_size(_, _)
matching_size(a, b) ==
    IF a = <<>> \/ b = <<>> THEN 0
    ELSE LET m == find_longest_match(a, b)
         IN IF m.k = 0 THEN 0
            ELSE m.k
                 + matching_size(SubSeq(a, 1, m.i - 1), SubSeq(b, 1, m.j - 1))
                 + matching_size(SubSeq(a, m.i + m.k, Len(a)),
                                 SubSeq(b, m.j + m.k, Len(b)))

\* SequenceMatcher(None, a, b).ratio() >= th / 100, ratio = 2.0 * M / T
ratio_at_least(a, b, th) ==
    IF Len(a) + Len(b) = 0 THEN 100 >= th
    ELSE 200 * matching_size(a, b) >= th * (Len(a) + Len(b))

DefaultThreshold == 70

fuzzy_match(txt, pat, th) ==
    IF ~Truthy(txt) \/ ~Truthy(pat) THEN FALSE
    ELSE LET t == lower(str(txt))
             p == lower(str(pat))
         IN IF contains(t, p) THEN TRUE ELSE ratio_at_least(t, p, th)

RECURSIVE get_column_value(_, _)
get_column_value(row, key) ==
    IF row = <<>> THEN PyNone
    ELSE IF name_strip(name_lower(Head(row).k)) = name_strip(name_lower(key))
         THEN Head(row).v
         ELSE get_column_value(Tail(row), key)


-----------------------------------------------------------------------------
(* Phase 3.4 - filter normalization (src/main.py 208-241) *)

s_usa == <<"u","s","a">>
s_computer_science == <<"c","o","m","p","u","t","e","r"," ","s","c","i","e","n","c","e">>
s_engineering_majors ==
    <<"m","e","c","h","a","n","i","c","a","l"," ","e","n","g","i","n","e","e",
      "r","i","n","g",","," ","e","l","e","c","t","r","i","c","a","l"," ","e",
      "n","g","i","n","e","e","r","i","n","g",","," ","c","i","v","i","l"," ",
      "e","n","g","i","n","e","e","r","i","n","g",","," ","c","h","e","m","i",
      "c","a","l"," ","e","n","g","i","n","e","e","r","i","n","g",","," ","c",
      "o","m","p","u","t","e","r"," ","e","n","g","i","n","e","e","r","i","n",
      "g",","," ","a","e","r","o","s","p","a","c","e"," ","e","n","g","i","n",
      "e","e","r","i","n","g">>

COUNTRY_SYNONYMS(v) ==
    CASE v = <<"a","m","e","r","i","c","a">> -> s_usa
      [] v = <<"u","n","i","t","e","d"," ","s","t","a","t","e","s">> -> s_usa
      [] v = 
             <<"u","n","i","t","e","d"," ","s","t","a","t","e","s"," ","o",
               "f"," ","a","m","e","r","i","c","a">> -> s_usa
      [] v = <<"u","s">> -> s_usa
      [] v = <<"u",".","s",".">> -> s_usa
      [] OTHER -> v

MAJOR_SYNONYMS(v) ==
    CASE v = <<"e","n","g","i","n","e","e","r","i","n","g">> -> s_engineering_majors
      [] v = <<"c","s">> -> s_computer_science
      [] v = <<"c","o","m","p"," ","s","c","i">> -> s_computer_science
      [] v = <<"c","s","e">> -> s_computer_science
      [] OTHER -> v

normalize_value(key, val) ==
    IF val.t = "str"
    THEN LET v0 == lower(strip(val.s))
             v1 == IF key = "countries applied to" THEN COUNTRY_SYNONYMS(v0) ELSE v0
             v2 == IF key = "intended_major" THEN MAJOR_SYNONYMS(v1) ELSE v1
         IN PyStr(v2)
    ELSE val

normalize_filters(F) ==
    [i \in 1..Len(F) |-> [k |-> F[i].k, v |-> normalize_value(F[i].k, F[i].v)]]

-----------------------------------------------------------------------------
(* Phase 3.4.3 - repair LLM mistakes (src/main.py 246-273) *)

COUNTRY_WORDS ==
    {<<"a","m","e","r","i","c","a">>, <<"u","s","a">>, <<"u","s">>,
     <<"u","n","i","t","e","d"," ","s","t","a","t","e","s">>,
     <<"u","k">>,
     <<"c","a","n","a","d","a">>,
     <<"i","n","d","i","a">>}

s_ib == <<"i","b">>

\* [v.lower() for v in val if v]
lower_nonempty(val) == LET ne == SelectSeq(val, LAMBDA v : v # <<>>)
                       IN [i \in 1..Len(ne) |-> lower(ne[i])]

\* fault model of drop_ib_univ: the guard tests the one-element list form
\* that the second block stores, instead of the string
drop_ib_univ_listform(d) ==
    IF has(d, "admitted univs")
       /\ item(d, "admitted univs").t = "list"
       /\ Len(item(d, "admitted univs").l) = 1
       /\ lower(item(d, "admitted univs").l[1]) = s_ib
    THEN pop(d, "admitted univs")
    ELSE d

\* first block: an "admitted univs" that is the string "ib" is dropped
drop_ib_univ(d) ==
    IF has(d, "admitted univs")
       /\ item(d, "admitted univs").t = "str"
       /\ lower(item(d, "admitted univs").s) = s_ib
    THEN pop(d, "admitted univs")
    ELSE d

\* second block: a country among the admitted univs moves to the countries
move_country(d) ==
    IF has(d, "admitted univs") /\ item(d, "admitted univs").t # "none"
    THEN LET v0 == item(d, "admitted univs")
             val == IF v0.t = "str" THEN <<v0.s>> ELSE v0.l
             val_lower == lower_nonempty(val)
         IN IF \E i \in 1..Len(val_lower) : val_lower[i] \in COUNTRY_WORDS
            THEN set(pop(d, "admitted univs"),
                     "countries applied to", PyStr(val_lower[1]))
            ELSE set(d, "admitted univs", PyList(val))
    ELSE d

\* third block: default IB bounds when the query text mentions "ib"
inject_ib_bounds(d, q) ==
    IF contains(lower(q), s_ib)
    THEN setdefault(setdefault(d, "ib_min_12", PyInt(24)), "ib_max_12", PyInt(45))
    ELSE d

repair_llm_filters(F, q) == inject_ib_bounds(move_country(drop_ib_univ(F)), q)

\* iterating an "admitted univs" that is an int raises TypeError
repair_raises(F) ==
    has(F, "admitted univs") /\ item(F, "admitted univs").t = "int"

-----------------------------------------------------------------------------
(* Core filter engine (src/main.py 99-203) *)

s_IBDP == <<"I","B","D","P">>
s_empty == <<>>

NumericKeys == {"ib_min_12", "ib_max_12",
                "SAT Total score_min", "SAT Total score_max",
                "ACT Score_min", "ACT Score_max"}

\* any(v is not None for v in sat_vals)
sat_used_of(q) ==
    get(q, "SAT Total score_min", PyNone).t # "none"
    \/ get(q, "SAT Total score_max", PyNone).t # "none"

\* any(v is not None for v in act_vals)
act_used_of(q) ==
    get(q, "ACT Score_min", PyNone).t # "none"
    \/ get(q, "ACT Score_max", PyNone).t # "none"

ib_used_of(q) ==
    get(q, "ib_min_12", PyNone).t # "none" \/ get(q, "ib_max_12", PyNone).t # "none"

\* outcome of a numeric stage: "pass", "exclude" (continue) or "raise"
numeric_stage(r, column, lo, hi) ==
    LET p == passes_numeric_filter(get(r, column, PyNone), lo, hi)
    IN CASE p = "TypeError" -> "raise"
         [] p = "False" -> "exclude"
         [] OTHER -> "pass"

\* fault model of ib_stage: the board gate is missing
ib_stage_no_gate(r, q) ==
    IF ib_used_of(q)
    THEN numeric_stage(r, "12th grade overall score",
                       get(q, "ib_min_12", PyNone), get(q, "ib_max_12", PyNone))
    ELSE "pass"

\* IB filter (123-133): board gate, then the overall score
ib_stage(r, q) ==
    IF ib_used_of(q)
    THEN LET board == get(r, "12th Board", PyStr(s_empty))
         IN IF board.t # "str" THEN "raise"
            ELSE IF upper(strip(board.s)) # s_IBDP THEN "exclude"
            ELSE numeric_stage(r, "12th grade overall score",
                               get(q, "ib_min_12", PyNone), get(q, "ib_max_12", PyNone))
    ELSE "pass"

\* SAT filter (135-142)
sat_stage(r, q, su) ==
    IF su
    THEN numeric_stage(r, "SAT Total score",
                       get(q, "SAT Total score_min", PyNone),
                       get(q, "SAT Total score_max", PyNone))
    ELSE "pass"

\* ACT filter (144-151)
act_stage(r, q, au) ==
    IF au
    THEN numeric_stage(r, "ACT Score",
                       get(q, "ACT Score_min", PyNone), get(q, "ACT Score_max", PyNone))
    ELSE "pass"

match_outcome(b) == IF b THEN "pass" ELSE "exclude"

\* one branch of the key dispatch (165-198), for a non-null val
text_filter(r, key, val) ==
    CASE name_lower(key) = "intended_major" ->
           IF val.t # "str" THEN "raise"
           ELSE LET parts == split(val.s)
                    majors == [i \in 1..Len(parts) |-> strip(parts[i])]
                    cell == get_column_value(r, "Intended Major")
                IN match_outcome(\E i \in 1..Len(majors) :
                                    fuzzy_match(cell, PyStr(majors[i]), DefaultThreshold))
      [] name_lower(key) = "city" ->
           LET cell == get(r, "City of Graduation", PyStr(s_empty))
           IN IF cell.t # "str" \/ val.t # "str" THEN "raise"
              ELSE match_outcome(lower(cell.s) = lower(val.s))
      [] name_lower(key) = "admitted univs" ->
           LET cell == get(r, "Accepted Univ", PyStr(s_empty))
           IN IF val.t = "list"
              THEN match_outcome(\E i \in 1..Len(val.l) :
                                    fuzzy_match(cell, PyStr(val.l[i]), DefaultThreshold))
              ELSE match_outcome(fuzzy_match(cell, val, DefaultThreshold))
      [] name_lower(key) = "countries applied to" ->
           match_outcome(fuzzy_match(get(r, "Countries Applied To", PyStr(s_empty)),
                                     val, DefaultThreshold))
      [] OTHER ->
           match_outcome(fuzzy_match(get_column_value(r, key), val, DefaultThreshold))

\* fault model of other_filters: a failing filter leaves the loop without
\* clearing include
RECURSIVE other_filters_keep(_, _)
other_filters_keep(r, items) ==
    IF items = <<>> THEN "pass"
    ELSE IF Head(items).k \in NumericKeys \/ Head(items).v.t = "none"
         THEN other_filters_keep(r, Tail(items))
         ELSE LET o == text_filter(r, Head(items).k, Head(items).v)
              IN IF o = "pass" THEN other_filters_keep(r, Tail(items))
                 ELSE IF o = "exclude" THEN "pass" ELSE o

\* the loop over query_params.items() (154-198): stops at the first filter
\* that fails (include = False; break) or raises
RECURSIVE other_filters(_, _)
other_filters(r, items) ==
    IF items = <<>> THEN "pass"
    ELSE IF Head(items).k \in NumericKeys \/ Head(items).v.t = "none"
         THEN other_filters(r, Tail(items))
         ELSE LET o == text_filter(r, Head(items).k, Head(items).v)
              IN IF o = "pass" THEN other_filters(r, Tail(items)) ELSE o

\* the body of the loop over records (120-201)
evaluate_record(r, q, su, au) ==
    LET ib == ib_stage(r, q)
        sat == sat_stage(r, q, su)
        act == act_stage(r, q, au)
    IN IF ib # "pass" THEN ib
       ELSE IF sat # "pass" THEN sat
       ELSE IF act # "pass" THEN act
       ELSE other_filters(r, q)

\* lines 100-118: the SAT/ACT precondition
FS_Check ==
    /\ pc = "fs_call"
    /\ sat_used' = sat_used_of(query_params)
    /\ act_used' = act_used_of(query_params)
    /\ filtered' = <<>>
    /\ IF sat_used_of(query_params) /\ act_used_of(query_params)
       THEN pc' = "http_error" /\ status' = 400 /\ idx' = idx
       ELSE pc' = "fs_loop" /\ status' = status /\ idx' = 1
    /\ UNCHANGED <<value_raw, min_val, max_val, text, pattern, threshold, filters,
                   user_query, sheet, records, query_params, raw, result, fetched,
                   repaired, repaired_again>>

\* one iteration of `for r in records` (120-201)
FS_Record ==
    /\ pc = "fs_loop"
    /\ idx <= Len(records)
    /\ LET o == evaluate_record(records[idx], query_params, sat_used, act_used)
       IN CASE o = "raise" ->
                 pc' = "raised" /\ status' = 500 /\ idx' = idx /\ filtered' = filtered
            [] o = "exclude" ->
                 pc' = pc /\ status' = status /\ idx' = idx + 1 /\ filtered' = filtered
            [] OTHER ->
                 /\ pc' = pc /\ status' = status /\ idx' = idx + 1
                 /\ filtered' = Append(filtered, records[idx])
    /\ UNCHANGED <<value_raw, min_val, max_val, text, pattern, threshold, filters,
                   user_query, sheet, records, query_params, sat_used, act_used, raw,
                   result, fetched, repaired, repaired_again>>

\* return filtered (203)
FS_Return ==
    /\ pc = "fs_loop"
    /\ idx > Len(records)
    /\ pc' = "fs_returned"
    /\ UNCHANGED <<value_raw, min_val, max_val, text, pattern, threshold, filters,
                   user_query, sheet, records, query_params, idx, filtered, sat_used,
                   act_used, raw, result, status, fetched, repaired, repaired_again>>

-----------------------------------------------------------------------------
(* Inputs of the filter engine *)

kv(k, v) == [k |-> k, v |-> v]

\* an IB diploma student
row_ib ==
    << kv("12th Board", PyStr(<<"I","B","D","P">>)),
       kv("12th grade overall score", PyStr(<<"3","8">>)),
       kv("SAT Total score", PyInt(1450)),
       kv("ACT Score", PyStr(s_empty)),
       kv("Intended Major", PyStr(<<"E","c","o","n">>)),
       kv("City of Graduation", PyStr(<<"D","e","l","h","i">>)),
       kv("Accepted Univ", PyStr(<<"M","I","T">>)),
       kv("Countries Applied To", PyStr(<<"U","S","A">>)),
       kv("Name", PyStr(<<"A","n","n">>)) >>

\* another board, a score inside any IB range, a variant header
row_cbse ==
    << kv("12th Board", PyStr(<<"C","B","S","E">>)),
       kv("12th grade overall score", PyStr(<<"3","6">>)),
       kv("SAT Total score", PyStr(<<"N","/","A">>)),
       kv("ACT Score", PyInt(32)),
       kv(" intended major ", PyStr(<<"C","S">>)),
       kv("City of Graduation", PyStr(<<"d","e","l","h","i">>)),
       kv("Accepted Univ", PyStr(s_empty)),
       kv("Countries Applied To", PyStr(<<"U","K">>)),
       kv("Name", PyStr(<<"B","o">>)) >>

\* IB diploma written with spaces and lower case, columns missing
row_ib_sp ==
    << kv("12th Board", PyStr(<<" ","i","b","d","p"," ">>)),
       kv("12th grade overall score", PyInt(30)),
       kv("SAT Total score", PyStr(<<"1","3","0","0">>)),
       kv("Intended Major", PyStr(<<"C","S">>)),
       kv("City of Graduation", PyStr(<<"P","u","n","e">>)),
       kv("Accepted Univ", PyStr(<<"U","C","L">>)) >>

\* cells the sheet reader returns as numbers
row_num ==
    << kv("12th Board", PyInt(12)),
       kv("12th grade overall score", PyStr(<<"N","/","A">>)),
       kv("SAT Total score", PyInt(1500)),
       kv("ACT Score", PyInt(35)),
       kv("Intended Major", PyStr(<<"C","S">>)),
       kv("City of Graduation", PyInt(5)),
       kv("Accepted Univ", PyStr(<<"M","I","T">>)),
       kv("Countries Applied To", PyStr(<<"U","K">>)) >>

Rows == {row_ib, row_cbse, row_ib_sp, row_num}

RECURSIVE SeqsUpTo(_, _)
SeqsUpTo(S, n) ==
    IF n = 0 THEN {<<>>}
    ELSE LET shorter == SeqsUpTo(S, n - 1)
         IN shorter \cup {Append(s, x) : s \in shorter, x \in S}

RecordLists == SeqsUpTo(Rows, MaxRecords)

IBParts ==
    { <<>>,
      << kv("ib_min_12", PyInt(35)) >>,
      << kv("ib_min_12", PyInt(30)), kv("ib_max_12", PyInt(40)) >>,
      << kv("ib_min_12", PyNone), kv("ib_max_12", PyNone) >>,
      << kv("ib_min_12", PyStr(<<"3","5">>)) >> }

SATParts == { <<>>, << kv("SAT Total score_min", PyInt(1400)) >> }
SATMathParts == { <<>>, << kv("SAT Math_min", PyInt(700)) >> }
ACTParts == { <<>>, << kv("ACT Score_max", PyInt(33)) >> }

TextParts ==
    { <<>>,
      << kv("intended_major", PyStr(<<"e","c","o","n",","," ","c","s">>)) >>,
      << kv("intended_major", PyNone) >>,
      << kv("city", PyStr(<<"d","e","l","h","i">>)) >>,
      << kv("City", PyStr(<<"P","U","N","E">>)) >>,
      << kv("city", PyInt(5)) >>,
      << kv("admitted univs", PyList(<< <<"m","i","t">>, <<"u","c","l">> >>)) >>,
      << kv("admitted univs", PyStr(<<"m","i","t">>)) >>,
      << kv("countries applied to", PyStr(<<"u","k">>)) >>,
      << kv("name", PyStr(<<"a","n","n">>)) >>,
      << kv("city", PyStr(<<"d","e","l","h","i">>)), kv("intended_major", PyStr(<<"c","s">>)) >>,
      << kv("city", PyStr(<<"p","u","n","e">>)), kv("intended_major", PyList(<< <<"c","s">> >>)) >>,
      << kv("intended_major", PyList(<< <<"c","s">> >>)), kv("city", PyStr(<<"p","u","n","e">>)) >> }

FilterSets ==
    { ib \o sat \o math \o act \o txt :
        ib \in IBParts, sat \in SATParts, math \in SATMathParts,
        act \in ACTParts, txt \in TextParts }

\* values of the variables a specification does not use
IdleNumeric == value_raw = PyNone /\ min_val = PyNone /\ max_val = PyNone
IdleFuzzy == text = PyNone /\ pattern = PyNone /\ threshold = DefaultThreshold
IdleRepair == filters = <<>> /\ user_query = <<>> /\ repaired = <<>> /\ repaired_again = <<>>
IdleTranslate == raw = <<>> /\ sheet = <<>> /\ fetched = FALSE
IdleLocals == sat_used = FALSE /\ act_used = FALSE /\ idx = 0 /\ filtered = <<>>
IdleEngine == records = <<>> /\ query_params = <<>> /\ IdleLocals

-----------------------------------------------------------------------------
(* filter_students called on a record list and a filter-set *)

InitFilter ==
    /\ pc = "fs_call"
    /\ records \in RecordLists
    /\ query_params \in FilterSets
    /\ result = "none" /\ status = 0
    /\ IdleNumeric /\ IdleFuzzy /\ IdleRepair /\ IdleTranslate /\ IdleLocals

NextFilter == FS_Check \/ FS_Record \/ FS_Return

SpecFilter == InitFilter /\ [][NextFilter]_vars

-----------------------------------------------------------------------------
(* passes_numeric_filter called on a cell value and two optional bounds *)

CellValues ==
    { PyNone, PyInt(32), PyInt(0), PyStr(<<"3","2">>), PyStr(<<" ","3","8"," ">>), PyStr(<<"-","5">>),
      PyStr(<<"N","/","A">>), PyStr(s_empty), PyStr(<<"3"," ","2">>), PyList(<< <<"3","2">> >>) }

BoundValues == { PyNone, PyInt(30), PyInt(32), PyInt(40), PyInt(0), PyStr(<<"3","0">>) }

InitNumeric ==
    /\ pc = "pnf_call"
    /\ value_raw \in CellValues
    /\ min_val \in BoundValues
    /\ max_val \in BoundValues
    /\ result = "none" /\ status = 0
    /\ IdleFuzzy /\ IdleRepair /\ IdleTranslate /\ IdleEngine

PNF_Call ==
    /\ pc = "pnf_call"
    /\ result' = passes_numeric_filter(value_raw, min_val, max_val)
    /\ pc' = "pnf_done"
    /\ UNCHANGED <<value_raw, min_val, max_val, text, pattern, threshold, filters,
                   user_query, repaired, repaired_again, raw, sheet, fetched, records,
                   query_params, sat_used, act_used, idx, filtered, status>>

NextNumeric == PNF_Call

SpecNumeric == InitNumeric /\ [][NextNumeric]_vars

-----------------------------------------------------------------------------
(* fuzzy_match called on a candidate, a pattern and a threshold *)

Alphabet == {"a", "A", "b"}

Strings == SeqsUpTo(Alphabet, MaxStrLen)

TextValues == {PyNone, PyInt(0)} \cup {PyStr(s) : s \in Strings}

Thresholds == {60, DefaultThreshold, 90}

InitFuzzy ==
    /\ pc = "fm_call"
    /\ text \in TextValues
    /\ pattern \in TextValues
    /\ threshold \in Thresholds
    /\ result = "none" /\ status = 0
    /\ IdleNumeric /\ IdleRepair /\ IdleTranslate /\ IdleEngine

FM_Call ==
    /\ pc = "fm_call"
    /\ result' = fuzzy_match(text, pattern, threshold)
    /\ pc' = "fm_done"
    /\ UNCHANGED <<value_raw, min_val, max_val, text, pattern, threshold, filters,
                   user_query, repaired, repaired_again, raw, sheet, fetched, records,
                   query_params, sat_used, act_used, idx, filtered, status>>

NextFuzzy == FM_Call

SpecFuzzy == InitFuzzy /\ [][NextFuzzy]_vars

-----------------------------------------------------------------------------
(* repair_llm_filters applied to a filter-set, then to its own result *)

UnivWords == { <<"m","i","t">>, <<"U","S","A">>, <<"i","b">>, s_empty }

UnivValues ==
    {PyNone} \cup {PyStr(w) : w \in UnivWords \cup {<<"I","B">>, <<"u","k">>}}
             \cup {PyList(l) : l \in SeqsUpTo(UnivWords, MaxListLen)}

UnivParts == { <<>> } \cup { << kv("admitted univs", v) >> : v \in UnivValues }

CountryParts == { <<>>, << kv("countries applied to", PyStr(<<"u","k">>)) >> }

IBBoundParts ==
    { <<>>,
      << kv("ib_min_12", PyInt(30)) >>,
      << kv("ib_max_12", PyNone) >>,
      << kv("ib_min_12", PyInt(30)), kv("ib_max_12", PyInt(40)) >> }

RepairInputs ==
    { c \o u \o b : c \in CountryParts, u \in UnivParts, b \in IBBoundParts }

Queries == { s_empty, <<"i","b">>, <<"t","o","p"," ","I","B"," ","k","i","d","s">>, <<"m","i","t">> }

InitRepair ==
    /\ pc = "rp_call"
    /\ filters \in RepairInputs
    /\ user_query \in Queries
    /\ repaired = <<>> /\ repaired_again = <<>>
    /\ result = "none" /\ status = 0
    /\ IdleNumeric /\ IdleFuzzy /\ IdleTranslate /\ IdleEngine

RP_Once ==
    /\ pc = "rp_call"
    /\ repaired' = repair_llm_filters(filters, user_query)
    /\ pc' = "rp_once"
    /\ UNCHANGED <<value_raw, min_val, max_val, text, pattern, threshold, result,
                   filters, user_query, repaired_again, raw, sheet, fetched, records,
                   query_params, sat_used, act_used, idx, filtered, status>>

RP_Again ==
    /\ pc = "rp_once"
    /\ repaired_again' = repair_llm_filters(repaired, user_query)
    /\ pc' = "rp_twice"
    /\ UNCHANGED <<value_raw, min_val, max_val, text, pattern, threshold, result,
                   filters, user_query, repaired, raw, sheet, fetched, records,
                   query_params, sat_used, act_used, idx, filtered, status>>

NextRepair == RP_Once \/ RP_Again

SpecRepair == InitRepair /\ [][NextRepair]_vars


-----------------------------------------------------------------------------
(* POST /nl_query (src/main.py 351-400) *)

\* The raw response is a sequence of tokens: "t" commentary, "{" and "}",
\* and "b", a well-formed member list denoting the dict d.
Tok(c) == [c |-> c, d |-> <<>>]
Body(d) == [c |-> "b", d |-> d]

\* raw.find(c): 0-based index of the first c, or -1
RECURSIVE find_from(_, _, _)
find_from(s, c, i) ==
    IF i > Len(s) THEN -1
    ELSE IF s[i].c = c THEN i - 1 ELSE find_from(s, c, i + 1)

find(s, c) == find_from(s, c, 1)

\* raw.rfind(c): 0-based index of the last c, or -1
RECURSIVE rfind_from(_, _, _)
rfind_from(s, c, i) ==
    IF i < 1 THEN -1
    ELSE IF s[i].c = c THEN i - 1 ELSE rfind_from(s, c, i - 1)

rfind(s, c) == rfind_from(s, c, Len(s))

\* s[a:b] with Python's handling of negative and out-of-range indices
slice(s, a, b) ==
    LET clamp(x) == IF x < 0 THEN (IF Len(s) + x < 0 THEN 0 ELSE Len(s) + x)
                    ELSE Min(x, Len(s))
    IN SubSeq(s, clamp(a) + 1, clamp(b))

\* json.loads on the span: ok is FALSE where it raises JSONDecodeError
json_loads(span) ==
    IF span = <<Tok("{"), Tok("}")>> THEN [ok |-> TRUE, d |-> <<>>]
    ELSE IF Len(span) = 3 /\ span[1] = Tok("{") /\ span[2].c = "b" /\ span[3] = Tok("}")
    THEN [ok |-> TRUE, d |-> span[2].d]
    ELSE [ok |-> FALSE, d |-> <<>>]

\* line 378
parse_filters(r) == json_loads(slice(r, find(r, "{"), rfind(r, "}") + 1))

\* compute_analytics (278-313) raises AttributeError on a cell it strips
\* that is not a string
analytics_raises(students) ==
    \E i \in 1..Len(students) :
        \/ \E c \in {"Countries Applied To", "Intended Major", "Accepted Univ"} :
              /\ Truthy(get(students[i], c, PyNone))
              /\ get(students[i], c, PyNone).t # "str"
        \/ get(students[i], "12th Board", PyStr(s_empty)).t # "str"

LLMFilterSets ==
    { << kv("ib_min_12", PyInt(35)) >>,
      << kv("admitted univs", PyStr(<<"U","S","A">>)), kv("intended_major", PyStr(<<"C","S">>)) >>,
      << kv("city", PyStr(<<"D","e","l","h","i"," ">>)) >>,
      << kv("name", PyStr(<<"A","n","n">>)) >>,
      << kv("admitted univs", PyInt(7)) >>,
      << kv("SAT Total score_min", PyInt(1400)), kv("ACT Score_min", PyInt(30)) >> }

RawTokens(d) == {Tok("t"), Tok("{"), Tok("}"), Body(d)}

RawResponses == UNION {SeqsUpTo(RawTokens(d), MaxRawLen) : d \in LLMFilterSets}

Messages == { <<"i","b"," ","k","i","d","s">>, <<"m","i","t">> }

InitQuery ==
    /\ pc = "nl_call"
    /\ user_query \in Messages
    /\ sheet \in RecordLists
    /\ raw = <<>> /\ fetched = FALSE
    /\ filters = <<>> /\ repaired = <<>> /\ repaired_again = <<>>
    /\ result = "none" /\ status = 0
    /\ IdleNumeric /\ IdleFuzzy /\ IdleEngine

\* lines 371-377: the translator answers
NL_Translate ==
    /\ pc = "nl_call"
    /\ \E x \in RawResponses : raw' = x
    /\ pc' = "nl_parse"
    /\ UNCHANGED <<value_raw, min_val, max_val, text, pattern, threshold, result,
                   filters, user_query, repaired, repaired_again, sheet, fetched,
                   records, query_params, sat_used, act_used, idx, filtered, status>>

\* line 378: JSONDecodeError is not caught in the handler
NL_Parse ==
    /\ pc = "nl_parse"
    /\ LET p == parse_filters(raw)
       IN IF p.ok
          THEN pc' = "nl_repair" /\ filters' = p.d /\ status' = status
          ELSE pc' = "raised" /\ filters' = filters /\ status' = 500
    /\ UNCHANGED <<value_raw, min_val, max_val, text, pattern, threshold, result,
                   user_query, repaired, repaired_again, raw, sheet, fetched, records,
                   query_params, sat_used, act_used, idx, filtered>>

\* line 380
NL_Repair ==
    /\ pc = "nl_repair"
    /\ IF repair_raises(filters)
       THEN pc' = "raised" /\ filters' = filters /\ status' = 500
       ELSE /\ pc' = "nl_normalize"
            /\ filters' = repair_llm_filters(filters, user_query)
            /\ status' = status
    /\ UNCHANGED <<value_raw, min_val, max_val, text, pattern, threshold, result,
                   user_query, repaired, repaired_again, raw, sheet, fetched, records,
                   query_params, sat_used, act_used, idx, filtered>>

\* line 381
NL_Normalize ==
    /\ pc = "nl_normalize"
    /\ filters' = normalize_filters(filters)
    /\ pc' = "nl_fetch"
    /\ UNCHANGED <<value_raw, min_val, max_val, text, pattern, threshold, result,
                   user_query, repaired, repaired_again, raw, sheet, fetched, records,
                   query_params, sat_used, act_used, idx, filtered, status>>

\* lines 383-384: read the sheet and call filter_students
NL_Fetch ==
    /\ pc = "nl_fetch"
    /\ records' = sheet
    /\ fetched' = TRUE
    /\ query_params' = filters
    /\ pc' = "fs_call"
    /\ UNCHANGED <<value_raw, min_val, max_val, text, pattern, threshold, result,
                   filters, user_query, repaired, repaired_again, raw, sheet,
                   sat_used, act_used, idx, filtered, status>>

\* lines 386-400: analytics, explanation and the response
NL_Respond ==
    /\ pc = "fs_returned"
    /\ IF analytics_raises(filtered)
       THEN pc' = "raised" /\ status' = 500
       ELSE pc' = "nl_done" /\ status' = 200
    /\ UNCHANGED <<value_raw, min_val, max_val, text, pattern, threshold, result,
                   filters, user_query, repaired, repaired_again, raw, sheet, fetched,
                   records, query_params, sat_used, act_used, idx, filtered>>

NextQuery ==
    \/ NL_Translate \/ NL_Parse \/ NL_Repair \/ NL_Normalize \/ NL_Fetch
    \/ FS_Check \/ FS_Record \/ FS_Return \/ NL_Respond

SpecQuery == InitQuery /\ [][NextQuery]_vars


-----------------------------------------------------------------------------
(* Properties *)

\* the keys the translator is allowed to produce (358-365)
Vocabulary ==
    {"ib_min_12", "ib_max_12", "SAT Total score_min", "SAT Total score_max",
     "ACT Score_min", "ACT Score_max", "intended_major", "admitted univs",
     "countries applied to", "city"}

SATGroupKeys ==
    {"SAT Total score_min", "SAT Total score_max", "SAT Math_min", "SAT Math_max",
     "SAT English_min", "SAT English_max"}

ACTGroupKeys == {"ACT Score_min", "ACT Score_max"}

GroupUsed(q, K) == \E k \in K : get(q, k, PyNone).t # "none"

\* C1: a filter-set with a non-null bound on a SAT-group column and a non-null
\* bound on the ACT-group column is rejected with HTTP 400 before any record
\* is evaluated.
C1_ConflictRejected ==
    (/\ pc # "fs_call"
     /\ GroupUsed(query_params, SATGroupKeys)
     /\ GroupUsed(query_params, ACTGroupKeys))
    => (pc = "http_error" /\ status = 400 /\ idx = 0 /\ filtered = <<>>)

s_ibdp == <<"i","b","d","p">>

\* the board value is the IB diploma marker, ignoring case and whitespace
IsIBBoard(r) ==
    /\ has(r, "12th Board")
    /\ item(r, "12th Board").t = "str"
    /\ lower(SelectSeq(item(r, "12th Board").s, LAMBDA c : ~IsSpace(c))) = s_ibdp

\* the overall score is an integer inside the requested IB bounds
ScoreInRange(r, q) ==
    LET c == int(get(r, "12th grade overall score", PyNone))
        lo == get(q, "ib_min_12", PyNone)
        hi == get(q, "ib_max_12", PyNone)
    IN /\ c.ok
       /\ lo.t = "int" => c.n >= lo.n
       /\ hi.t = "int" => c.n <= hi.n

\* C2: with ib_min_12 or ib_max_12 present, every record of the output has the
\* IB diploma board and an overall score inside the bounds; a record of another
\* board is never in the output, whatever its score.
C2_IBGate ==
    ib_used_of(query_params)
    => \A i \in 1..Len(filtered) :
          IsIBBoard(filtered[i]) /\ ScoreInRange(filtered[i], query_params)

\* an IB request has returned; a record of another board with a score inside
\* the bounds was scanned and left out, and an IB record was kept
C2_Witness ==
    /\ pc = "fs_returned"
    /\ ib_used_of(query_params)
    /\ filtered # <<>>
    /\ \E i \in 1..Len(records) :
          /\ ~IsIBBoard(records[i])
          /\ ScoreInRange(records[i], query_params)
          /\ \A j \in 1..Len(filtered) : filtered[j] # records[i]

\* C3: filter_students never raises on a row-level or value-level anomaly; the
\* record concerned is excluded and the scan goes on.
C3_NeverRaises == pc # "raised"

recognized(q) == SelectSeq(q, LAMBDA e : e.k \in Vocabulary)

\* C4: the filter-set nl_query hands to filter_students holds only keys of the
\* vocabulary, and the records returned are those the recognized keys select.
C4_OnlyVocabulary ==
    /\ fetched => keys(query_params) \subseteq Vocabulary
    /\ (fetched /\ pc = "fs_returned")
       => filtered = SelectSeq(records,
                        LAMBDA r : evaluate_record(r, recognized(query_params),
                                                   sat_used, act_used) = "pass")

\* C5: repairing a repaired filter-set changes nothing.
C5_Idempotent == pc = "rp_twice" => dict_eq(repaired_again, repaired)

\* the repair was applied twice to a filter-set that the first pass changed
C5_Witness ==
    /\ pc = "rp_twice"
    /\ has(filters, "admitted univs")
    /\ ~dict_eq(repaired, filters)

\* C6: passes_numeric_filter agrees with the reference: no bound, pass; a
\* bound and a cell that is no integer, fail; otherwise min <= value <= max
\* over the bounds given.
C6_MatchesReference ==
    (pc = "pnf_done" /\ min_val.t \in {"none", "int"} /\ max_val.t \in {"none", "int"})
    => result = IF min_val.t = "none" /\ max_val.t = "none" THEN "True"
                ELSE IF ~int(value_raw).ok THEN "False"
                ELSE IF /\ min_val.t = "int" => int(value_raw).n >= min_val.n
                        /\ max_val.t = "int" => int(value_raw).n <= max_val.n
                     THEN "True" ELSE "False"

\* the recognized country names among an "admitted univs" value, case folded
CountriesIn(v) ==
    LET names == CASE v.t = "str" -> {v.s}
                   [] v.t = "list" -> {v.l[i] : i \in 1..Len(v.l)}
                   [] OTHER -> {}
    IN {lower(w) : w \in names} \cap COUNTRY_WORDS

\* C7: an "admitted univs" holding a recognized country name (a string, or a
\* list containing one) is removed and "countries applied to" becomes that
\* country name.
C7_CountryMoved ==
    (/\ pc # "rp_call"
     /\ has(filters, "admitted univs")
     /\ CountriesIn(item(filters, "admitted univs")) # {})
    => /\ ~has(repaired, "admitted univs")
       /\ get(repaired, "countries applied to", PyNone).t = "str"
       /\ get(repaired, "countries applied to", PyNone).s
             \in CountriesIn(item(filters, "admitted univs"))

\* C8: a raw response that does not parse ends the request with HTTP 400 and
\* the sheet is neither read nor scanned; the sheet is read only after a
\* successful parse.
C8_ParseFailureIs400 ==
    /\ (pc \notin {"nl_call", "nl_parse"} /\ ~parse_filters(raw).ok)
       => (status = 400 /\ ~fetched /\ idx = 0)
    /\ fetched => parse_filters(raw).ok

IsEmptyOrAbsent(v) == v.t = "none" \/ (v.t = "str" /\ v.s = <<>>)

\* C9: fuzzy_match is true when, case folded, the pattern is inside the
\* candidate or the candidate inside the pattern, at any threshold, and false
\* when either is empty or absent.
C9_SubstringWins ==
    pc = "fm_done"
    => /\ (/\ text.t = "str" /\ text.s # <<>>
           /\ pattern.t = "str" /\ pattern.s # <<>>
           /\ \/ contains(lower(text.s), lower(pattern.s))
              \/ contains(lower(pattern.s), lower(text.s)))
          => result = TRUE
       /\ (IsEmptyOrAbsent(text) \/ IsEmptyOrAbsent(pattern)) => result = FALSE

\* r passes every active filter of q
PassesEvery(r, q) ==
    /\ ib_used_of(q) => ib_stage(r, q) = "pass"
    /\ sat_used_of(q) => sat_stage(r, q, TRUE) = "pass"
    /\ act_used_of(q) => act_stage(r, q, TRUE) = "pass"
    /\ \A i \in 1..Len(q) :
          (q[i].k \notin NumericKeys /\ q[i].v.t # "none")
          => text_filter(r, q[i].k, q[i].v) = "pass"

NoActiveFilter(q) == \A i \in 1..Len(q) : q[i].v.t = "none"

\* C10: the output is the input records, in order, that pass every active
\* filter; with no active filter it is the input.
C10_Subsequence ==
    pc = "fs_returned"
    => /\ filtered = SelectSeq(records, LAMBDA r : PassesEvery(r, query_params))
       /\ NoActiveFilter(query_params) => filtered = records

\* two filters are active; of two distinct records one was kept, one left out
C10_Witness ==
    /\ pc = "fs_returned"
    /\ Cardinality({i \in 1..Len(query_params) : query_params[i].v.t # "none"}) >= 2
    /\ Len(records) >= 2
    /\ Len(filtered) >= 1
    /\ Len(filtered) < Len(records)

====
